---------------------------- MODULE Spec2Model ----------------------------
(***************************************************************************)
(* A model of src/main.py, the payment-alert poller: the dedup ledger      *)
(* (load_processed_ids, _save_processed_ids, mark_processed), the matcher  *)
(* (sender_allowed, find_matches), the dispatcher's retry loop             *)
(* (send_telegram_alert) and one scan cycle over all tenants (check_mail). *)
(*                                                                         *)
(* Specifications:                                                         *)
(*   Spec       the polling loop's scan cycles over both tenants' mail     *)
(*   RenumSpec  the same against a server that expunges a message          *)
(*   SaveSpec   _save_processed_ids step by step, with kills and restarts  *)
(*   RunSpec    the settings, validate_config and run()'s loop             *)
(*   TextSpec   the tail of extract_email_text on every short text         *)
(*                                                                         *)
(* Text is a sequence of one-character strings.  Time is counted in ticks; *)
(* the retention window is PROCESSED_RETENTION_DAYS ticks and the pause    *)
(* between two cycles of the polling loop lasts at most one tick.  The     *)
(* clock stands still while a cycle runs.                                  *)
(***************************************************************************)
EXTENDS Integers, Sequences, FiniteSets, TLC

(***************************************************************************)
(* Bounds of the model and constants of the program.                       *)
(***************************************************************************)
\* the clock stops advancing at MaxTime
MaxTime == 3

\* PROCESSED_RETENTION_DAYS (an environment setting, 14 by default), in ticks:
\* an entry stamped at tick t is dropped by a load at tick t + 2 or later
PROCESSED_RETENTION_DAYS == 2

\* run() stops counting consecutive failures at MaxFailures
MaxFailures == 4

\* max_backoff in run()
max_backoff == 900

\* the longest decoded text part of TextSpec
MaxChunkLen == 5

\* the largest MAX_BODY_CHARS setting of TextSpec
MaxBudget == 3

\* the `retries` default of send_telegram_alert
DefaultRetries == 3

\* the pause used for a 429 response without a Retry-After header
DefaultRetryAfter == 5

(***************************************************************************)
(* Text helpers.                                                           *)
(***************************************************************************)
\* str.lower() on the letters the model's texts use
LowerChar(c) ==
    CASE c = "P" -> "p"
      [] c = "D" -> "d"
      [] c = "B" -> "b"
      [] c = "I" -> "i"
      [] OTHER -> c

Lower(s) == [i \in 1..Len(s) |-> LowerChar(s[i])]

\* Python's `sub in s` on strings
Contains(sub, s) ==
    \E i \in 0..(Len(s) - Len(sub)) :
        \A j \in 1..Len(sub) : s[i + j] = sub[j]

\* str.replace("<", "").replace(">", "")
StripAngles(s) == SelectSeq(s, LAMBDA c : c \notin {"<", ">"})

\* the whitespace of the model's texts
IsSpace(c) == c \in {" ", "\n"}

RECURSIVE LStrip(_)
LStrip(s) == IF s # <<>> /\ IsSpace(Head(s)) THEN LStrip(Tail(s)) ELSE s

RECURSIVE RStrip(_)
RStrip(s) ==
    IF s # <<>> /\ IsSpace(s[Len(s)]) THEN RStrip(SubSeq(s, 1, Len(s) - 1)) ELSE s

\* str.strip()
Strip(s) == LStrip(RStrip(s))

\* str(num) for the sequence numbers of the model's mailboxes
NumStr(n) == <<"1", "2", "3", "4">>[n]

(***************************************************************************)
(* Configuration: GLOBAL_ALERT_PHRASES (two of the source's phrases) and   *)
(* the tenant records build_company_configs produces.                      *)
(***************************************************************************)
GLOBAL_ALERT_PHRASES ==
    << <<"p","a","y","m","e","n","t"," ","d","u","e">>,
       <<"e","x","p","i","r","e","s">> >>

\* dict.fromkeys(xs): duplicates removed, first occurrence kept
RECURSIVE Dedup(_)
Dedup(xs) ==
    IF xs = <<>> THEN <<>>
    ELSE LET rest == Dedup(SubSeq(xs, 1, Len(xs) - 1))
             x == xs[Len(xs)]
         IN  IF \E i \in 1..Len(rest) : rest[i] = x THEN rest
             ELSE Append(rest, x)

COMPANIES ==
    << [ email |-> <<"t","1">>,
         allowed_senders |-> << <<"b","i","l","l","@">> >>,
         keywords |-> Dedup(GLOBAL_ALERT_PHRASES \o << <<"i","n","v","o","i","c","e">> >>) ],
       [ email |-> <<"t","2">>,
         allowed_senders |-> << >>,
         keywords |-> Dedup(GLOBAL_ALERT_PHRASES \o << <<"e","x","p","i","r","e","s">> >>) ] >>

Tenants == 1..Len(COMPANIES)

(***************************************************************************)
(* The mailboxes: what the mail server holds for each tenant, in sequence  *)
(* number order.  `arrived` is the tick of the message's internal date.    *)
(***************************************************************************)
Mailbox ==
    << \* tenant 1
       << [ mid |-> <<"<","a",">">>, date |-> <<"d","0">>,
            from |-> <<"B","i","l","l","@","x">>,
            subject |-> <<"P","a","y","m","e","n","t"," ","D","u","e">>,
            body |-> <<"s","e","t","t","l","e">>, charset |-> "utf-8",
            arrived |-> 0 ],
          [ mid |-> <<"<","b",">">>, date |-> <<"d","0">>,
            from |-> <<"s","p","a","m","@","y">>,
            subject |-> <<"e","x","p","i","r","e","s">>,
            body |-> <<"n","o","w">>, charset |-> "utf-8", arrived |-> 0 ],
          [ mid |-> <<"<","c",">">>, date |-> <<"d","0">>,
            from |-> <<"b","i","l","l","@","x">>,
            subject |-> <<"e","x","p","i","r","e","s">>,
            body |-> <<"?","?">>, charset |-> "x-unknown", arrived |-> 0 ] >>,
       \* tenant 2
       << [ mid |-> <<" ","a"," ">>, date |-> <<"d","0">>,
            from |-> <<"o","p","s","@","z">>,
            subject |-> <<"n","o","t","i","c","e">>,
            body |-> <<"I","n","v","o","i","c","e"," ","e","x","p","i","r","e","s">>,
            charset |-> "utf-8", arrived |-> 0 ],
          [ mid |-> << >>, date |-> <<"d","1">>,
            from |-> <<"o","p","s","@","z">>,
            subject |-> <<"h","e","l","l","o">>,
            body |-> <<"n","e","w","s">>, charset |-> "utf-8", arrived |-> 1 ],
          [ mid |-> << >>, date |-> <<"d","0">>,
            from |-> <<"o","p","s","@","z">>,
            subject |-> <<"e","x","p","i","r","e","s">>,
            body |-> <<"s","o","o","n">>, charset |-> "utf-8", arrived |-> 1 ] >> >>

\* the messages the mail server may expunge between two cycles, as
\* << tenant, position in Mailbox >>
Expungeable == { <<2, 2>> }

\* the positions in Mailbox[t] of the messages the server still holds
RECURSIVE KeptFrom(_, _, _)
KeptFrom(t, gone, k) ==
    IF k > Len(Mailbox[t]) THEN << >>
    ELSE IF <<t, k>> \in gone THEN KeptFrom(t, gone, k + 1)
         ELSE <<k>> \o KeptFrom(t, gone, k + 1)

\* the mailbox as the server presents it: sequence numbers are positions
\* among the messages still held
BoxOf(t, gone) ==
    LET kept == KeptFrom(t, gone, 1)
    IN  [n \in 1..Len(kept) |-> Mailbox[t][kept[n]]]


\* MAX_BODY_CHARS (an environment setting)
MAX_BODY_CHARS == 700

(***************************************************************************)
(* Message normalisation.                                                  *)
(***************************************************************************)
\* a fallback identifier that leaves the sequence number out
get_message_id_no_seq(msg, email_addr, num) ==
    LET msg_id == IF msg.mid # << >> THEN msg.mid
                  ELSE email_addr \o <<"-">> \o msg.date
    IN  StripAngles(Strip(msg_id))

\* get_message_id: the Message-ID header, or the fallback built from the
\* mailbox address, the sequence number and the Date header
get_message_id(msg, email_addr, num) ==
    LET msg_id == IF msg.mid # << >> THEN msg.mid
                  ELSE email_addr \o <<"-">> \o <<NumStr(num)>> \o <<"-">> \o msg.date
    IN  StripAngles(Strip(msg_id))

\* extract_sender_email on a From header that holds a bare address
extract_sender_email(from_header) == Strip(Lower(from_header))

\* lines 296-297 and 305-306: payload.decode(charset, errors="replace")
\* raises LookupError for a charset Python does not know
decodable(msg) == msg.charset \in {"utf-8", "latin-1"}

\* line 312, re.sub(r"\n{3,}", "\n\n", s): a run of three or more newlines
\* becomes two
RECURSIVE collapse_newlines(_)
collapse_newlines(s) ==
    IF \E i \in 1..(Len(s) - 2) : s[i] = "\n" /\ s[i + 1] = "\n" /\ s[i + 2] = "\n"
    THEN LET i == CHOOSE j \in 1..(Len(s) - 2) :
                      s[j] = "\n" /\ s[j + 1] = "\n" /\ s[j + 2] = "\n"
         IN  collapse_newlines(SubSeq(s, 1, i) \o SubSeq(s, i + 2, Len(s)))
    ELSE s

\* lines 311-312 for one decoded text part
normalize(part) == collapse_newlines(Strip(part))

\* a truncation that cuts one character early
truncate_short(normalized, max_chars) ==
    IF Len(normalized) > max_chars
    THEN RStrip(SubSeq(normalized, 1, max_chars - 1)) \o <<".", ".", ".">>
    ELSE normalized

\* lines 313-314: normalized[:MAX_BODY_CHARS].rstrip() + "..."
truncate(normalized, max_chars) ==
    IF Len(normalized) > max_chars
    THEN RStrip(SubSeq(normalized, 1, max_chars)) \o <<".", ".", ".">>
    ELSE normalized

\* line 315
EmptyBody == <<"(","e","m","p","t","y"," ","t","e","x","t"," ","b","o","d","y",")">>

\* the tail of extract_email_text, lines 311-315, for one decoded text part
extract_tail(part, max_chars) ==
    LET cut == truncate(normalize(part), max_chars)
    IN  IF cut # << >> THEN cut ELSE EmptyBody

extract_email_text(msg) == extract_tail(msg.body, MAX_BODY_CHARS)

(***************************************************************************)
(* The match engine.                                                       *)
(***************************************************************************)
\* a bug a refactoring of sender_allowed could introduce: the allowlist is ignored
sender_allowed_open(company, sender_email) == TRUE

sender_allowed(company, sender_email) ==
    LET allowed == company.allowed_senders
    IN  IF allowed = << >> THEN TRUE
        ELSE \E i \in 1..Len(allowed) : Contains(allowed[i], sender_email)

\* find_matches without the case folding of the haystack
find_matches_cased(company, subject, body_text) ==
    LET haystack == subject \o <<"\n">> \o body_text
    IN  Dedup(SelectSeq(company.keywords, LAMBDA phrase : Contains(Lower(phrase), haystack)))

find_matches(company, subject, body_text) ==
    LET haystack == Lower(subject \o <<"\n">> \o body_text)
    IN  Dedup(SelectSeq(company.keywords, LAMBDA phrase : Contains(Lower(phrase), haystack)))

(***************************************************************************)
(* The dedup ledger: a function from message identifiers to the tick of    *)
(* their first processing.                                                 *)
(***************************************************************************)
EmptyLedger == [i \in {} |-> 0]

\* a pruning that keeps the entries stamped exactly at the cutoff
Pruned_inclusive(data, t) ==
    LET cutoff == t - PROCESSED_RETENTION_DAYS
        keep == {k \in DOMAIN data : data[k] >= cutoff}
    IN  [k \in keep |-> data[k]]

\* load_processed_ids, lines 152-153: the entries newer than the cutoff
Pruned(data, t) ==
    LET cutoff == t - PROCESSED_RETENTION_DAYS
        keep == {k \in DOMAIN data : data[k] > cutoff}
    IN  [k \in keep |-> data[k]]

\* mark_processed that forgets the assignment
mark_processed_dropped(led, msg_id, t) == led

\* mark_processed, line 168: processed[msg_id] = now
mark_processed(led, msg_id, t) ==
    [k \in DOMAIN led \cup {msg_id} |-> IF k = msg_id THEN t ELSE led[k]]

\* a dedup check that never finds the identifier
in_processed_never(msg_id, led) == FALSE

\* check_mail, line 369: msg_id in processed
in_processed(msg_id, led) == msg_id \in DOMAIN led

(***************************************************************************)
(* The dispatcher's retry loop (send_telegram_alert, lines 200-218).  A    *)
(* response is ok (a success status), err (an error status or a transport *)
(* failure: a requests.RequestException), or a 429 with or without a       *)
(* Retry-After header (`ra` seconds when present; the header always holds *)
(* whole seconds, as the notification API sends it).                       *)
(***************************************************************************)
Responses ==
    { [kind |-> "ok", ra |-> 0],
      [kind |-> "err", ra |-> 0],
      [kind |-> "r429", ra |-> 2],
      [kind |-> "r429nohdr", ra |-> 0] }

Is429(r) == r.kind \in {"r429", "r429nohdr"}

\* line 204: int(resp.headers.get("Retry-After", 5))
retry_after(r) == IF r.kind = "r429" THEN r.ra ELSE DefaultRetryAfter

\* a backoff that starts at 2^0
backoff_from_one(attempt) == 2 ^ (attempt - 1)

\* line 212: wait = 2 ** attempt
backoff(attempt) == 2 ^ attempt

\* one pass of the loop body for response r on attempt `attempt`:
\* the pause it makes (0: none) and whether the function returns True
send_step(attempt, r, retries) ==
    IF Is429(r) THEN [sleep |-> retry_after(r), success |-> FALSE]
    ELSE IF r.kind = "ok" THEN [sleep |-> 0, success |-> TRUE]
    ELSE [sleep |-> IF attempt < retries THEN backoff(attempt) ELSE 0,
          success |-> FALSE]

(***************************************************************************)
(* Control flow of check_mail.                                             *)
(***************************************************************************)
\* line 346: the next tenant of the for loop, or the end of the cycle
after_tenant(t) ==
    IF t < Len(COMPANIES) THEN [pc |-> "tenant", ci |-> t + 1, raised |-> FALSE]
    ELSE [pc |-> "idle", ci |-> 0, raised |-> FALSE]

\* a tenant-level failure that is not caught and ends check_mail
on_tenant_error_propagates(t) == [pc |-> "idle", ci |-> 0, raised |-> TRUE]

\* lines 392-397: a tenant-level exception is logged and the loop goes on
on_tenant_error(t) == after_tenant(t)

\* line 361: the next message of the for loop, or the end of the tenant's scan
after_message(t, k, n) ==
    IF k < n THEN [pc |-> "msg", ci |-> t, mi |-> k + 1, raised |-> FALSE]
    ELSE [pc |-> after_tenant(t).pc, ci |-> after_tenant(t).ci, mi |-> 0,
          raised |-> FALSE]

\* a per-message failure that ends the scan of the mailbox
on_message_error_aborts(t, k, n) ==
    [pc |-> after_tenant(t).pc, ci |-> after_tenant(t).ci, mi |-> 0, raised |-> FALSE]

\* lines 389-390: a per-message exception is logged and the loop goes on
on_message_error(t, k, n) == after_message(t, k, n)

\* a safe_logout that returns without calling logout
safe_logout_never(m) == 0

\* safe_logout(mail), lines 229-235: the number of logout calls it makes
safe_logout(m) == IF m = "None" THEN 0 ELSE 1

\* resolve_since_date: the configured start tick, or one tick back
resolve_since_date(start_date, t) == IF start_date # "" THEN 0 ELSE t - 1

\* line 353: the sequence numbers the SINCE search returns at tick t
RECURSIVE search(_, _, _, _)
search(box, since, t, k) ==
    IF k > Len(box) THEN << >>
    ELSE IF box[k].arrived >= since /\ box[k].arrived <= t
         THEN <<k>> \o search(box, since, t, k + 1)
         ELSE search(box, since, t, k + 1)

(***************************************************************************)
(* State.                                                                  *)
(***************************************************************************)
VARIABLES
    START_DATE,     \* the START_DATE setting: "" or the day of tick 0
    file,           \* the ledger file (the empty ledger: no file)
    now,            \* the clock
    pc,             \* idle | tenant | msg | send | mark
    processed,      \* check_mail's `processed`
    ci,             \* the tenant being scanned
    nums,           \* msg_nums
    mi,             \* the position in msg_nums
    mail,           \* the tenant's connection: None | open
    attempt,        \* send_telegram_alert's loop variable
    resps,          \* the responses of the running send, in order
    sleeps,         \* the pause after each of them (0: none)
    ret,            \* what send_telegram_alert returned: none | true | false
    raised,         \* check_mail ended by raising to run()
    \* history
    startLedger,    \* the identifiers load_processed_ids returned this cycle
    last,           \* what happened to the message handled last
    tlast,          \* what happened to the tenant scanned last
    connects,       \* the tenants a connect was made for this cycle
    sent,           \* per identifier, the dispatcher calls of this cycle
    failedSends,    \* the identifiers whose dispatch returned False this cycle
    prevAlerted,    \* identifiers alerted and persisted by the cycle before
    prevFailed,     \* those of them whose dispatch returned False
    markedBy,       \* per ledger identifier, the tenant whose scan marked it
    everWritten,    \* the identifiers ever written to the ledger file
    expunged,       \* the messages the server has expunged
    connected,      \* the tenants whose connect_imap returned this cycle
    logouts,        \* per tenant, the logout calls of this cycle
    dispatchedFor,  \* << tenant, identifier >> of every dispatcher call so far
    \* the ledger file, byte for byte (SaveSpec)
    disk,           \* per path, whether the file exists and its text
    spc,            \* idle | open | dump | replace (in _save_processed_ids) | down
    saving,         \* the argument of the running or last _save_processed_ids
    held,           \* the caller's `processed`
    onDisk,         \* what the ledger file held when the last save began
    crashedAt,      \* where the process was when it was last killed
    \* the orchestrator (RunSpec)
    env,            \* the settings read from the environment
    rpc,            \* off | start | loop | returned
    consecutive_failures,
    slept,          \* the argument of the last time.sleep
    called,         \* check_mail was called
    validations,    \* the calls of validate_config
    cycle,          \* what happened in the last pass of the loop
    \* the body text (TextSpec)
    chunk,          \* the decoded text part
    max_body_chars, \* the MAX_BODY_CHARS setting
    text_out,       \* what extract_email_text returned
    tpc             \* off | in | out

cycleVars == << START_DATE, file, now, pc, processed, ci, nums, mi, mail, attempt,
                resps, sleeps, ret, raised, startLedger, last, tlast, connects,
                sent, failedSends, prevAlerted, prevFailed, markedBy, everWritten,
                expunged, connected, logouts, dispatchedFor >>

saveVars == << disk, spc, saving, held, onDisk, crashedAt >>

runVars == << env, rpc, consecutive_failures, slept, called, validations, cycle >>

textVars == << chunk, max_body_chars, text_out, tpc >>

vars == << cycleVars, saveVars, runVars, textVars >>

\* what a scan cycle leaves alone
others == << saveVars, runVars, textVars >>

\* the mailbox of tenant t as the server presents it now
Box(t) == BoxOf(t, expunged)

\* every identifier a message can have, under any sequence number
AllIds ==
    UNION { { get_message_id(Mailbox[t][k], COMPANIES[t].email, n) :
                k \in 1..Len(Mailbox[t]), n \in 1..Len(Mailbox[t]) } : t \in Tenants }

NoMessage ==
    [ t |-> 0, num |-> 0, id |-> << >>, fetched |-> "none", dup |-> FALSE,
      checked |-> FALSE, matched |-> FALSE, dispatched |-> FALSE,
      ret |-> "none", mark |-> "none", raisedAt |-> "none", done |-> FALSE ]

NoTenant == [ t |-> 0, outcome |-> "none" ]

NoSent == [i \in AllIds |-> 0]

NoLogouts == [t \in Tenants |-> 0]

\* no file in the ledger directory
Absent == [exists |-> FALSE, text |-> << >>]

NoFiles == [path \in {"json", "tmp"} |-> Absent]

SaveIdle ==
    /\ disk = NoFiles
    /\ spc = "idle"
    /\ saving = EmptyLedger
    /\ held = EmptyLedger
    /\ onDisk = EmptyLedger
    /\ crashedAt = "none"

NoCycle ==
    [ ran |-> FALSE, kind |-> "none", result |-> "none", raised |-> FALSE,
      prevRaised |-> FALSE, prevSlept |-> 0 ]

NoEnv ==
    [ IMAP_SERVER |-> "", BOT_TOKEN |-> "", EMAILS |-> << >>, PASSWORDS |-> << >>,
      TELEGRAM_CHAT_IDS |-> << >>, CHECK_INTERVAL |-> 0 ]

RunIdle ==
    /\ env = NoEnv
    /\ rpc = "off"
    /\ consecutive_failures = 0
    /\ slept = 0
    /\ called = FALSE
    /\ validations = 0
    /\ cycle = NoCycle

TextIdle ==
    /\ chunk = << >>
    /\ max_body_chars = MAX_BODY_CHARS
    /\ text_out = << >>
    /\ tpc = "off"

\* the scan cycle's variables after start-up, for a server that holds the
\* messages of Mailbox except those in `gone`
CycleInit(gone) ==
    /\ START_DATE \in {"", "day0"}
    /\ file = EmptyLedger
    /\ now = 0
    /\ pc = "idle"
    /\ processed = EmptyLedger
    /\ ci = 0
    /\ nums = << >>
    /\ mi = 0
    /\ mail = "None"
    /\ attempt = 0
    /\ resps = << >>
    /\ sleeps = << >>
    /\ ret = "none"
    /\ raised = FALSE
    /\ startLedger = {}
    /\ last = NoMessage
    /\ tlast = NoTenant
    /\ connects = {}
    /\ sent = NoSent
    /\ failedSends = {}
    /\ prevAlerted = {}
    /\ prevFailed = {}
    /\ markedBy = EmptyLedger
    /\ everWritten = {}
    /\ expunged = gone
    /\ connected = {}
    /\ logouts = NoLogouts
    /\ dispatchedFor = {}

\* the state after start-up
InitWith(gone) == CycleInit(gone) /\ SaveIdle /\ RunIdle /\ TextIdle

\* the scan cycle's variables in a specification that leaves them alone
CycleOff == CycleInit({ }) /\ START_DATE = ""

\* both tenants have mail; the second tenant's third message is not there
Init == InitWith({ <<2, 3>> })

(***************************************************************************)
(* Steps.                                                                  *)
(***************************************************************************)
\* where control goes next; leaving a tenant whose `mail` is m runs
\* `finally: safe_logout(mail)`, and the end of check_mail closes the cycle's books
GotoFrom(m, nx) ==
    /\ pc' = nx.pc
    /\ ci' = nx.ci
    /\ mi' = nx.mi
    /\ raised' = nx.raised
    /\ IF nx.pc = "msg"
       THEN UNCHANGED << mail, nums, logouts >>
       ELSE /\ mail' = "None" /\ nums' = << >>
            /\ logouts' = [logouts EXCEPT ![ci] = @ + safe_logout(m)]
    /\ IF nx.pc = "idle"
       THEN /\ prevAlerted' = {i \in DOMAIN file' : sent'[i] > 0}
            /\ prevFailed' = failedSends' \cap DOMAIN file'
       ELSE UNCHANGED << prevAlerted, prevFailed >>

Goto(nx) == GotoFrom(mail, nx)

NoSend == attempt' = 0 /\ resps' = << >> /\ sleeps' = << >> /\ ret' = "none"

\* _save_processed_ids(data): the file is replaced, or the write fails and
\* the file stays as it was
Save(data, wok) ==
    /\ file' = IF wok THEN data ELSE file
    /\ everWritten' = IF wok THEN everWritten \cup DOMAIN data ELSE everWritten

\* check_mail, lines 343-344, entered from run()'s loop after its sleep:
\* load_processed_ids prunes the ledger and persists it when entries were dropped
CheckMailStart ==
    /\ pc = "idle"
    /\ \E d \in {0, 1}, wok \in BOOLEAN :
         /\ now + d <= MaxTime
         /\ now' = now + d
         /\ LET pruned == Pruned(file, now + d)
                dropped == Cardinality(DOMAIN pruned) < Cardinality(DOMAIN file)
            IN  IF dropped /\ ~wok
                THEN \* the write of the pruned map raises out of check_mail
                     /\ UNCHANGED << file, everWritten, markedBy >>
                     /\ processed' = EmptyLedger
                     /\ pc' = "idle" /\ ci' = 0 /\ raised' = TRUE
                     /\ startLedger' = {}
                     /\ prevAlerted' = {} /\ prevFailed' = {}
                ELSE /\ IF dropped THEN Save(pruned, TRUE)
                        ELSE UNCHANGED << file, everWritten >>
                     /\ processed' = pruned
                     /\ markedBy' = [k \in DOMAIN pruned |-> markedBy[k]]
                     /\ pc' = "tenant" /\ ci' = 1 /\ raised' = FALSE
                     /\ startLedger' = DOMAIN pruned
                     /\ UNCHANGED << prevAlerted, prevFailed >>
    /\ last' = NoMessage /\ tlast' = NoTenant /\ connects' = {} /\ sent' = NoSent
    /\ failedSends' = {}
    /\ connected' = {} /\ logouts' = NoLogouts
    /\ NoSend
    /\ UNCHANGED others
    /\ UNCHANGED << START_DATE, nums, mi, mail, expunged, dispatchedFor >>

\* lines 347-359 for tenant ci: connect_imap (the connection, then the login),
\* select, search.  `mail` is assigned only when connect_imap returns
ScanTenant ==
    /\ pc = "tenant"
    /\ \E outcome \in {"connect_error", "login_error", "select_error",
                       "search_error", "search_not_ok", "ok"} :
         LET found == search(Box(ci), resolve_since_date(START_DATE, now), now, 1)
             m == IF outcome \in {"connect_error", "login_error"} THEN "None"
                  ELSE "open"
         IN  /\ connects' = connects \cup {ci}
             /\ connected' = IF m = "open" THEN connected \cup {ci} ELSE connected
             /\ UNCHANGED << file, everWritten, sent, failedSends >>
             /\ IF outcome \in {"connect_error", "login_error", "select_error",
                                "search_error"}
                THEN /\ tlast' = [t |-> ci, outcome |-> outcome]
                     /\ UNCHANGED processed
                     /\ GotoFrom(m, on_tenant_error(ci) @@ [mi |-> 0])
                ELSE IF outcome = "search_not_ok" \/ found = << >>
                THEN /\ tlast' = [t |-> ci, outcome |-> "nothing"]
                     /\ UNCHANGED processed
                     /\ GotoFrom(m, after_tenant(ci) @@ [mi |-> 0])
                ELSE /\ tlast' = [t |-> ci, outcome |-> "scan"]
                     /\ pc' = "msg" /\ mi' = 1 /\ nums' = found /\ mail' = m
                     /\ UNCHANGED << ci, raised, prevAlerted, prevFailed, processed,
                                     logouts >>
    /\ NoSend
    /\ last' = NoMessage
    /\ UNCHANGED others
    /\ UNCHANGED << START_DATE, now, startLedger, markedBy, expunged, dispatchedFor >>

\* mark_processed(processed, msg_id) followed by the rest of the loop body:
\* a failed write raises into the per-message handler
Mark(msg_id, wok, rec) ==
    /\ processed' = mark_processed(processed, msg_id, now)
    /\ Save(processed', wok)
    /\ markedBy' = [k \in DOMAIN processed' |->
                      IF k \in DOMAIN processed THEN markedBy[k] ELSE ci]
    /\ last' = [rec EXCEPT !.mark = IF wok THEN "ok" ELSE "raise",
                            !.raisedAt = IF wok THEN "none" ELSE "mark",
                            !.done = TRUE]
    /\ IF wok THEN Goto(after_message(ci, mi, Len(nums)))
       ELSE Goto(on_message_error(ci, mi, Len(nums)))

\* lines 362-383 for message nums[mi]: fetch, identifier, dedup check,
\* allowlist check, match
ProcessMessage ==
    /\ pc = "msg"
    /\ UNCHANGED others
    /\ UNCHANGED << START_DATE, now, startLedger, tlast, connects, failedSends,
                    expunged, connected >>
    /\ \E fetched \in {"raise", "not_ok", "ok"}, wok \in BOOLEAN :
         LET num == nums[mi]
             msg == Box(ci)[num]
             company == COMPANIES[ci]
             msg_id == get_message_id(msg, company.email, num)
             sender_email == extract_sender_email(msg.from)
             matches == find_matches(company, msg.subject, extract_email_text(msg))
             rec == [NoMessage EXCEPT !.t = ci, !.num = num, !.fetched = fetched]
         IN  IF fetched = "raise"
             THEN /\ last' = [rec EXCEPT !.raisedAt = "fetch", !.done = TRUE]
                  /\ UNCHANGED << file, everWritten, sent, markedBy, processed,
                                  dispatchedFor >>
                  /\ NoSend
                  /\ Goto(on_message_error(ci, mi, Len(nums)))
             ELSE IF fetched = "not_ok"
             THEN /\ last' = [rec EXCEPT !.done = TRUE]
                  /\ UNCHANGED << file, everWritten, sent, markedBy, processed,
                                  dispatchedFor >>
                  /\ NoSend
                  /\ Goto(after_message(ci, mi, Len(nums)))
             ELSE IF in_processed(msg_id, processed)
             THEN /\ last' = [rec EXCEPT !.id = msg_id, !.dup = TRUE, !.done = TRUE]
                  /\ UNCHANGED << file, everWritten, sent, markedBy, processed,
                                  dispatchedFor >>
                  /\ NoSend
                  /\ Goto(after_message(ci, mi, Len(nums)))
             ELSE IF ~sender_allowed(company, sender_email)
             THEN /\ UNCHANGED << sent, dispatchedFor >>
                  /\ NoSend
                  /\ Mark(msg_id, wok, [rec EXCEPT !.id = msg_id, !.checked = TRUE])
             ELSE IF ~decodable(msg)
             THEN \* extract_email_text raises
                  /\ last' = [rec EXCEPT !.id = msg_id, !.checked = TRUE,
                                         !.raisedAt = "normalize", !.done = TRUE]
                  /\ UNCHANGED << file, everWritten, sent, markedBy, processed,
                                  dispatchedFor >>
                  /\ NoSend
                  /\ Goto(on_message_error(ci, mi, Len(nums)))
             ELSE IF matches # << >>
             THEN \* send_telegram_alert is called
                  /\ last' = [rec EXCEPT !.id = msg_id, !.checked = TRUE,
                                         !.matched = TRUE, !.dispatched = TRUE]
                  /\ sent' = [sent EXCEPT ![msg_id] = @ + 1]
                  /\ dispatchedFor' = dispatchedFor \cup { <<ci, msg_id>> }
                  /\ pc' = "send" /\ attempt' = 1
                  /\ resps' = << >> /\ sleeps' = << >> /\ ret' = "none"
                  /\ UNCHANGED << file, everWritten, markedBy, processed, ci, mi,
                                  raised, mail, nums, prevAlerted, prevFailed,
                                  logouts >>
             ELSE /\ UNCHANGED << sent, dispatchedFor >>
                  /\ NoSend
                  /\ Mark(msg_id, wok, [rec EXCEPT !.id = msg_id, !.checked = TRUE,
                                                   !.matched = TRUE])

\* one pass of send_telegram_alert's loop: a POST, its response, the pause
SendAttempt ==
    /\ pc = "send"
    /\ \E r \in Responses :
         LET step == send_step(attempt, r, DefaultRetries)
             over == step.success \/ attempt = DefaultRetries
         IN  /\ resps' = Append(resps, r)
             /\ sleeps' = Append(sleeps, step.sleep)
             /\ attempt' = IF over THEN attempt ELSE attempt + 1
             /\ ret' = IF step.success THEN "true" ELSE IF over THEN "false" ELSE "none"
             /\ pc' = IF over THEN "mark" ELSE "send"
             /\ last' = [last EXCEPT !.ret = ret']
             /\ failedSends' = IF over /\ ~step.success
                               THEN failedSends \cup {last.id} ELSE failedSends
    /\ UNCHANGED others
    /\ UNCHANGED << START_DATE, file, now, processed, ci, nums, mi, mail, raised,
                    startLedger, tlast, connects, sent, prevAlerted, prevFailed,
                    markedBy, everWritten, expunged, connected, logouts,
                    dispatchedFor >>

\* line 387, after send_telegram_alert returned
FinishMessage ==
    /\ pc = "mark"
    /\ UNCHANGED others
    /\ UNCHANGED << START_DATE, now, startLedger, tlast, connects, sent,
                    failedSends, expunged, connected, dispatchedFor >>
    /\ NoSend
    /\ \E wok \in BOOLEAN : Mark(last.id, wok, last)

\* the process is killed during a cycle and started again
Crash ==
    /\ pc # "idle"
    /\ pc' = "idle" /\ ci' = 0 /\ mi' = 0 /\ nums' = << >> /\ mail' = "None"
    /\ processed' = EmptyLedger
    /\ raised' = FALSE
    /\ NoSend
    /\ last' = NoMessage /\ tlast' = NoTenant
    /\ prevAlerted' = {i \in DOMAIN file : sent[i] > 0}
    /\ prevFailed' = failedSends \cap DOMAIN file
    /\ sent' = NoSent /\ failedSends' = {} /\ startLedger' = {} /\ connects' = {}
    /\ connected' = {} /\ logouts' = NoLogouts
    /\ UNCHANGED others
    /\ UNCHANGED << START_DATE, file, now, markedBy, everWritten, expunged,
                    dispatchedFor >>

\* between two cycles the mail server expunges a message: the messages after
\* it get new sequence numbers (the record of the message handled last, which
\* names it by sequence number, is dropped)
Expunge ==
    /\ pc = "idle"
    /\ \E e \in Expungeable \ expunged : expunged' = expunged \cup {e}
    /\ last' = NoMessage
    /\ UNCHANGED others
    /\ UNCHANGED << START_DATE, file, now, pc, processed, ci, nums, mi, mail,
                    attempt, resps, sleeps, ret, raised, startLedger, tlast,
                    connects, sent, failedSends, prevAlerted, prevFailed, markedBy,
                    everWritten, connected, logouts, dispatchedFor >>

Next ==
    \/ CheckMailStart
    \/ ScanTenant
    \/ ProcessMessage
    \/ SendAttempt
    \/ FinishMessage
    \/ Crash

Spec == Init /\ [][Next]_vars

\* the polling loop against a server that expunges a message between two
\* cycles: the first tenant's mailbox is empty, the second tenant has its
\* second and third message
RenumInit == InitWith({ <<1, k>> : k \in 1..Len(Mailbox[1]) } \cup { <<2, 1>> })

RenumNext ==
    \/ Next
    \/ Expunge

RenumSpec == RenumInit /\ [][RenumNext]_vars

(***************************************************************************)
(* The ledger file, byte for byte.  The text of a file is a sequence of    *)
(* tokens: an opening brace, one token per entry, a closing brace; a       *)
(* write that is cut short leaves a prefix of it.                          *)
(***************************************************************************)
\* the identifiers of SaveSpec, in the order json.dump writes them
SaveIdSeq == << <<"a">>, <<"b">>, <<"c">> >>

\* json.dump(data, f): the tokens written, in order
json_dump(map) ==
    LET keys == SelectSeq(SaveIdSeq, LAMBDA k : k \in DOMAIN map)
    IN  << [tok |-> "{", k |-> << >>, v |-> 0] >>
        \o [i \in 1..Len(keys) |-> [tok |-> "entry", k |-> keys[i], v |-> map[keys[i]]]]
        \o << [tok |-> "}", k |-> << >>, v |-> 0] >>

\* json.load(f): the map, or a JSONDecodeError for a text that is cut short
json_load(text) ==
    IF Len(text) >= 2 /\ text[1].tok = "{" /\ text[Len(text)].tok = "}"
    THEN [ok |-> TRUE,
          map |-> [k \in {text[i].k : i \in 2..(Len(text) - 1)} |->
                     text[CHOOSE i \in 2..(Len(text) - 1) : text[i].k = k].v]]
    ELSE [ok |-> FALSE, map |-> EmptyLedger]

\* load_processed_ids, lines 143-150: no file or a decode error give {}
read_ledger(f) ==
    IF ~f.exists THEN EmptyLedger
    ELSE IF json_load(f.text).ok THEN json_load(f.text).map
    ELSE EmptyLedger

\* a save that writes into the ledger file itself
tmp_path_in_place == "json"

\* line 161: PROCESSED_FILE.with_suffix(".tmp")
tmp_path == "tmp"

\* line 164, tmp.replace(PROCESSED_FILE): one rename
replaced(d) == [[d EXCEPT ![tmp_path] = Absent] EXCEPT !["json"] = d[tmp_path]]

\* mark_processed, line 168, and the call of _save_processed_ids
MarkBegin ==
    /\ spc = "idle"
    /\ \E i \in 1..Len(SaveIdSeq) :
         /\ SaveIdSeq[i] \notin DOMAIN held
         /\ held' = mark_processed(held, SaveIdSeq[i], now)
    /\ saving' = held'
    /\ onDisk' = read_ledger(disk["json"])
    /\ crashedAt' = "none"
    /\ spc' = "open"
    /\ UNCHANGED << disk, cycleVars, runVars, textVars >>

\* line 162: open(tmp, "w") creates or truncates the file, or raises
SaveOpen ==
    /\ spc = "open"
    /\ \E ok \in BOOLEAN :
         IF ok THEN /\ disk' = [disk EXCEPT ![tmp_path] = [exists |-> TRUE, text |-> << >>]]
                    /\ spc' = "dump"
         ELSE spc' = "idle" /\ UNCHANGED disk
    /\ UNCHANGED << saving, held, onDisk, crashedAt, cycleVars, runVars, textVars >>

\* line 163: json.dump writes the next token, or the write raises
SaveDump ==
    /\ spc = "dump"
    /\ \E ok \in BOOLEAN :
         LET full == json_dump(saving)
             n == Len(disk[tmp_path].text)
         IN  IF ok
             THEN /\ disk' = [disk EXCEPT ![tmp_path].text = Append(@, full[n + 1])]
                  /\ spc' = IF n + 1 = Len(full) THEN "replace" ELSE "dump"
             ELSE spc' = "idle" /\ UNCHANGED disk
    /\ UNCHANGED << saving, held, onDisk, crashedAt, cycleVars, runVars, textVars >>

\* line 164: the file is closed and renamed over the ledger file, or the
\* rename raises
SaveReplace ==
    /\ spc = "replace"
    /\ \E ok \in BOOLEAN :
         IF ok THEN disk' = replaced(disk) ELSE UNCHANGED disk
    /\ spc' = "idle"
    /\ UNCHANGED << saving, held, onDisk, crashedAt, cycleVars, runVars, textVars >>

\* the process is killed, between two saves or at any point inside one
SaveCrash ==
    /\ spc \in {"idle", "open", "dump", "replace"}
    /\ crashedAt' = spc
    /\ spc' = "down"
    /\ held' = EmptyLedger
    /\ UNCHANGED << disk, saving, onDisk, cycleVars, runVars, textVars >>

\* the process starts again and the first cycle calls load_processed_ids
\* (every entry is newer than the cutoff: nothing is pruned)
Restart ==
    /\ spc = "down"
    /\ held' = Pruned(read_ledger(disk["json"]), now)
    /\ spc' = "idle"
    /\ UNCHANGED << disk, saving, onDisk, crashedAt, cycleVars, runVars, textVars >>

SaveInit == CycleOff /\ SaveIdle /\ RunIdle /\ TextIdle

SaveNext ==
    \/ MarkBegin
    \/ SaveOpen
    \/ SaveDump
    \/ SaveReplace
    \/ SaveCrash
    \/ Restart

SaveSpec == SaveInit /\ [][SaveNext]_vars

(***************************************************************************)
(* The orchestrator: the settings, validate_config and run()'s loop.  In   *)
(* check_mail every tenant's scan is inside a try block that catches       *)
(* Exception, so check_mail raises only out of load_processed_ids.         *)
(***************************************************************************)
\* lines 36, 37 and 42: the entries of a comma-separated setting that are
\* not empty
nonempty(xs) == SelectSeq(xs, LAMBDA x : x # "")

\* the text before the first colon
RECURSIVE BeforeColon(_)
BeforeColon(s) ==
    IF s = << >> \/ Head(s) = ":" THEN << >> ELSE <<Head(s)>> \o BeforeColon(Tail(s))

\* parse_chat_destination(raw)["chat_id"]
parse_chat_destination(raw) ==
    IF \E i \in 1..Len(raw) : raw[i] = ":" THEN Strip(BeforeColon(raw)) ELSE raw

\* build_company_configs: one record per entry of EMAILS, with the password
\* and the chat identifier of the same position, or an empty one
build_company_configs(e) ==
    LET emails == nonempty(e.EMAILS)
        passwords == nonempty(e.PASSWORDS)
        chats == SelectSeq(e.TELEGRAM_CHAT_IDS, LAMBDA x : x # << >>)
    IN  [i \in 1..Len(emails) |->
           [ email |-> emails[i],
             password |-> IF i <= Len(passwords) THEN passwords[i] ELSE "",
             chat_id |-> IF i <= Len(chats) THEN parse_chat_destination(chats[i])
                         ELSE << >> ]]

company_ok(c) == c.email # "" /\ c.password # "" /\ c.chat_id # << >>

\* a validate_config whose result is that of the last tenant checked
validate_config_last(e) ==
    LET companies == build_company_configs(e)
    IN  IF e.IMAP_SERVER = "" \/ e.BOT_TOKEN = "" THEN FALSE
        ELSE IF companies = << >> THEN FALSE
        ELSE company_ok(companies[Len(companies)])

\* validate_config, lines 400-413
validate_config(e) ==
    LET companies == build_company_configs(e)
    IN  IF e.IMAP_SERVER = "" \/ e.BOT_TOKEN = "" THEN FALSE
        ELSE IF companies = << >> THEN FALSE
        ELSE \A i \in 1..Len(companies) : company_ok(companies[i])

\* what check_mail can find where the ledger file should be: no file, a
\* ledger none of whose entries has expired, a ledger with an expired entry,
\* text that is not JSON, JSON that is not an object (a list), an object with
\* a value that is not a string (a number), a file that cannot be opened
LedgerKinds ==
    {"missing", "map", "stale_map", "garbled", "not_a_map", "bad_value", "unreadable"}

\* load_processed_ids on such a file, when a write succeeds (wok) or fails:
\* it returns the empty ledger, returns a map, or raises
load_outcome(kind, wok) ==
    CASE kind = "missing" -> "empty"          \* line 143
      [] kind = "unreadable" -> "raise"       \* open: OSError, not caught
      [] kind = "garbled" -> "empty"          \* line 148: JSONDecodeError
      [] kind = "not_a_map" -> "raise"        \* line 153: AttributeError on .items()
      [] kind = "bad_value" -> "raise"        \* line 153: TypeError on v > cutoff
      [] kind = "map" -> "map"
      [] kind = "stale_map" -> IF wok THEN "map" ELSE "raise"   \* line 155

\* a backoff without the cap
run_backoff_uncapped(interval, k) == interval * k

\* line 440: min(CHECK_INTERVAL * consecutive_failures, max_backoff)
run_backoff(interval, k) ==
    IF interval * k < max_backoff THEN interval * k ELSE max_backoff

\* run(), lines 427-431
Validate ==
    /\ rpc = "start"
    /\ validations' = validations + 1
    /\ IF validate_config(env)
       THEN rpc' = "loop" /\ consecutive_failures' = 0
       ELSE rpc' = "returned" /\ UNCHANGED consecutive_failures
    /\ UNCHANGED << env, slept, called, cycle, cycleVars, saveVars, textVars >>

\* one pass of the while loop, lines 433-443: check_mail, then the sleep
RunCycle ==
    /\ rpc = "loop"
    /\ called' = TRUE
    /\ \E kind \in LedgerKinds, wok \in BOOLEAN :
         LET result == load_outcome(kind, wok)
             rec == [ ran |-> TRUE, kind |-> kind, result |-> result,
                      raised |-> result = "raise",
                      prevRaised |-> cycle.raised, prevSlept |-> slept ]
         IN  /\ cycle' = rec
             /\ IF result = "raise"
                THEN /\ consecutive_failures < MaxFailures
                     /\ consecutive_failures' = consecutive_failures + 1
                     /\ slept' = run_backoff(env.CHECK_INTERVAL, consecutive_failures')
                ELSE /\ consecutive_failures' = 0
                     /\ slept' = env.CHECK_INTERVAL
    /\ UNCHANGED << env, rpc, validations, cycleVars, saveVars, textVars >>

\* the settings the process can be started with
RunInit ==
    /\ CycleOff /\ SaveIdle /\ TextIdle
    /\ env \in [ IMAP_SERVER : {"", "imap.x"},
                  BOT_TOKEN : {"", "token"},
                  EMAILS : { << >>, <<"t1">>, <<"t1", "t2">> },
                  PASSWORDS : { << >>, <<"pw">>, <<"pw", "pw">> },
                  TELEGRAM_CHAT_IDS : { << >>, << <<"-","1">> >>, << <<":","5">> >>,
                                        << <<"-","1">>, <<"-","2",":","5">> >>,
                                        << <<":","5">>, <<"-","2">> >> },
                  CHECK_INTERVAL : {300, 600} ]
    /\ rpc = "start"
    /\ consecutive_failures = 0
    /\ slept = 0
    /\ called = FALSE
    /\ validations = 0
    /\ cycle = NoCycle

RunNext ==
    \/ Validate
    \/ RunCycle

RunSpec == RunInit /\ [][RunNext]_vars

(***************************************************************************)
(* extract_email_text on one decoded text part, for every text of up to    *)
(* MaxChunkLen characters and every MAX_BODY_CHARS setting up to MaxBudget.*)
(***************************************************************************)
RECURSIVE Texts(_)
Texts(n) ==
    IF n = 0 THEN { << >> }
    ELSE Texts(n - 1) \cup
         { Append(t, c) : t \in {u \in Texts(n - 1) : Len(u) = n - 1},
                          c \in {"a", " ", "\n"} }

Extract ==
    /\ tpc = "in"
    /\ text_out' = extract_tail(chunk, max_body_chars)
    /\ tpc' = "out"
    /\ UNCHANGED << chunk, max_body_chars, cycleVars, saveVars, runVars >>

TextInit ==
    /\ CycleOff /\ SaveIdle /\ RunIdle
    /\ chunk \in Texts(MaxChunkLen)
    /\ max_body_chars \in 1..MaxBudget
    /\ text_out = << >>
    /\ tpc = "in"

TextNext == Extract

TextSpec == TextInit /\ [][TextNext]_vars

(***************************************************************************)
(* Properties.  The predicates below restate the claims' conditions from   *)
(* the raw message and the tenant record, not through the code's helpers.  *)
(***************************************************************************)
MsgOf(rec) == Box(rec.t)[rec.num]

\* the sender address contains none of the entries of a non-empty allowlist
OffAllowlist(rec) ==
    LET allowed == COMPANIES[rec.t].allowed_senders
        addr == Lower(MsgOf(rec).from)
    IN  /\ allowed # << >>
        /\ \A i \in 1..Len(allowed) : ~Contains(allowed[i], addr)

\* some keyword of the tenant's corpus is contained, case folded, in subject+body
HasKeyword(rec) ==
    LET kws == COMPANIES[rec.t].keywords
        text == Lower(MsgOf(rec).subject \o <<"\n">> \o MsgOf(rec).body)
    IN  \E i \in 1..Len(kws) : Contains(Lower(kws[i]), text)

\* the message was fetched and passed the dedup check
Fresh(rec) == rec.fetched = "ok" /\ ~rec.dup

\* after message rec, the loop is at the next message of the search result,
\* or at the next tenant when rec was the last one
Continues(rec) ==
    LET found == search(Box(rec.t), resolve_since_date(START_DATE, now), now, 1)
        idx == CHOOSE i \in 1..Len(found) : found[i] = rec.num
    IN  /\ ~raised
        /\ IF idx < Len(found)
           THEN pc = "msg" /\ ci = rec.t /\ nums = found /\ mi = idx + 1
           ELSE IF rec.t < Len(COMPANIES)
           THEN pc = "tenant" /\ ci = rec.t + 1
           ELSE pc = "idle"

\* C1: within one cycle the dispatcher is never invoked for a message whose
\* identifier is in the ledger load_processed_ids returned at the cycle's start
C1_NoDispatchForLedgerIds ==
    /\ \A i \in startLedger : sent[i] = 0
    /\ (last.fetched = "ok" /\ last.id \in startLedger) => last.dup /\ ~last.dispatched

\* C1 witness: a fetched message whose identifier was in the ledger at cycle start
C1_Witness ==
    last.done /\ last.fetched = "ok" /\ last.id \in startLedger /\ last.dup

\* C2 (as claimed): the dispatcher never runs for an identifier that was ever
\* written to the ledger file
C2_NeverDispatchedAgain ==
    pc \in {"send", "mark"} => last.id \notin everWritten

\* C3: a fresh message from a sender off a non-empty allowlist reaches neither
\* find_matches nor the dispatcher, its identifier is added to the ledger (and to
\* the file when the write succeeds), and once its identifier is in the loaded
\* ledger it is skipped at the dedup check, before the allowlist check
C3_NonAllowedSender ==
    /\ (Fresh(last) /\ OffAllowlist(last)) =>
          /\ ~last.matched /\ ~last.dispatched /\ sent[last.id] = 0
          /\ last.done
          /\ last.id \in DOMAIN processed
          /\ last.mark = "ok" => last.id \in DOMAIN file
    /\ (last.fetched = "ok" /\ OffAllowlist(last) /\ last.id \in startLedger) =>
          last.dup /\ ~last.checked

\* C3 witness: a non-allowed sender's message was marked processed
C3_Witness ==
    /\ Fresh(last) /\ OffAllowlist(last) /\ last.done
    /\ last.mark = "ok" /\ last.id \in DOMAIN file

C5_RateLimitNotCounted ==
    pc = "mark" =>
        /\ \A i \in 1..Len(resps) :
               Is429(resps[i]) =>
                   /\ sleeps[i] = IF resps[i].kind = "r429" THEN resps[i].ra
                                  ELSE DefaultRetryAfter
                   /\ i < Len(resps)
        /\ ret = "false" =>
               Cardinality({i \in 1..Len(resps) : resps[i].kind = "err"}) = DefaultRetries

\* C6: when every attempt fails for a reason other than a rate limit, there are
\* exactly `retries` POSTs, the pause after failed attempt k is 2^k for
\* k < retries and none after the last, and the result is False; the result is
\* True only when the last response was a success
C6_BackoffAndBudget ==
    /\ (pc \in {"send", "mark"} /\ \A i \in 1..Len(resps) : resps[i].kind = "err") =>
          /\ Len(resps) <= DefaultRetries
          /\ \A k \in 1..Len(resps) :
                 sleeps[k] = IF k < DefaultRetries THEN 2 ^ k ELSE 0
          /\ pc = "mark" => Len(resps) = DefaultRetries /\ ret = "false"
          /\ pc = "send" => attempt = Len(resps) + 1
    /\ ret = "true" => resps # << >> /\ resps[Len(resps)].kind = "ok"

\* C6 witness: a send whose three attempts all failed
C6_Witness ==
    /\ pc = "mark" /\ ret = "false" /\ Len(resps) = DefaultRetries
    /\ \A i \in 1..Len(resps) : resps[i].kind = "err"

\* C7: after a dispatch that returned False the message is still marked: its
\* identifier is in the ledger (and in the file when the write succeeds), and the
\* next cycle does not call the dispatcher for an identifier so persisted
C7_FailedDispatchStillMarked ==
    /\ (last.done /\ last.ret = "false") =>
          /\ last.mark # "none"
          /\ last.id \in DOMAIN processed
          /\ last.mark = "ok" => last.id \in DOMAIN file
    /\ pc # "idle" => \A i \in prevFailed : sent[i] = 0

\* C7 witness: a failed dispatch followed by a successful mark
C7_Witness ==
    last.done /\ last.dispatched /\ last.ret = "false" /\ last.mark = "ok"

\* C8 (as claimed): after a step of a message raised, the loop goes on with the
\* next message and the message's identifier is not in the ledger
C8_FailingMessageNotInLedger ==
    (last.done /\ last.raisedAt # "none") =>
        /\ Continues(last)
        /\ last.id \notin DOMAIN processed

\* C8 (amended): after a step of a message raised, the loop goes on with the next
\* message and the ledger file is as it was; the in-memory ledger is as it was
\* when the failure came before mark_processed, and holds the identifier when
\* the write inside mark_processed failed
C8_ErrorIsolatedPerMessage ==
    [][ (pc \in {"msg", "mark"} /\ last'.done /\ last'.raisedAt # "none") =>
            /\ Continues(last)'
            /\ file' = file
            /\ IF last'.raisedAt = "mark"
               THEN DOMAIN processed' = DOMAIN processed \cup {last'.id}
               ELSE processed' = processed ]_vars

\* C8 witness: the write in mark_processed failed and the loop is at the next message
C8_Witness ==
    last.done /\ last.raisedAt = "mark" /\ pc = "msg" /\ last.id \in DOMAIN processed

\* C9: a connect, login, select or search failure of one tenant ends only that tenant's
\* scan: the loop goes on with the next tenant, every tenant before the current
\* one had its connect, a completed cycle connected for every tenant, and
\* check_mail does not raise
C9_TenantFailureIsolated ==
    /\ tlast.outcome \in {"connect_error", "login_error", "select_error",
                         "search_error"} =>
          /\ ~raised
          /\ IF tlast.t < Len(COMPANIES)
             THEN pc = "tenant" /\ ci = tlast.t + 1
             ELSE pc = "idle"
    /\ pc = "tenant" => connects = 1..(ci - 1)
    /\ pc \in {"msg", "send", "mark"} => connects = 1..ci
    /\ (pc = "idle" /\ tlast.t # 0) =>
          tlast.t = Len(COMPANIES) /\ connects = Tenants /\ ~raised

\* C9 witness: the first tenant's connect failed and the second tenant is next
C9_Witness ==
    tlast.t = 1 /\ tlast.outcome = "connect_error" /\ pc = "tenant" /\ ci = 2

\* C10 (as claimed): a matching message from an allowed sender is skipped at the
\* dedup check only because of a ledger entry that the scan of its own tenant
\* recorded, never because of one recorded while another tenant was scanned
C10_TenantIsolation ==
    (last.dup /\ ~OffAllowlist(last) /\ HasKeyword(last)) =>
        markedBy[last.id] = last.t

\* C11: a load that returns hands back exactly the entries of the file stamped
\* later than now minus the retention window; when it dropped an entry the file
\* afterwards equals the returned map, and when it dropped none the file is
\* as it was
C11_LoadReturnsRetained ==
    [][ (pc = "idle" /\ pc' = "tenant") =>
            LET kept == {k \in DOMAIN file : file[k] > now' - PROCESSED_RETENTION_DAYS}
            IN  /\ DOMAIN processed' = kept
                /\ \A k \in kept : processed'[k] = file[k]
                /\ IF kept # DOMAIN file THEN file' = processed'
                   ELSE file' = file ]_vars

\* C11 witness: a load has just returned, an identifier written earlier is gone
\* from the file, and the file equals the returned map
C11_Witness ==
    /\ pc = "tenant" /\ ci = 1 /\ connects = {}
    /\ everWritten \ DOMAIN file # {}
    /\ DOMAIN file # {}
    /\ processed = file

\* C14 (as claimed): no ledger write failure ends the cycle: check_mail never
\* raises, and after a failed write in mark_processed the loop goes on
C14_WriteFailureNeverAborts ==
    /\ ~raised
    /\ (last.done /\ last.raisedAt = "mark") => Continues(last)

\* the sequence number the message now numbered n had before the server
\* expunged anything
PrevNum(t, n) ==
    LET cur == KeptFrom(t, expunged, 1)
        before == KeptFrom(t, expunged \ Expungeable, 1)
    IN  CHOOSE i \in 1..Len(before) : before[i] = cur[n]

\* the identifier of a message without Message-ID header under number n:
\* the mailbox address, the number and the Date header, joined by dashes
FallbackId(t, msg, n) ==
    COMPANIES[t].email \o <<"-", NumStr(n), "-">> \o msg.date

\* C18: a message without Message-ID header that the server has renumbered
\* has an identifier different from the one it had before; unless the new
\* identifier is in the loaded ledger it passes the dedup check, and when it is
\* a matching message of an allowed sender the dispatcher runs for it again
C18_RenumberedAlertedAgain ==
    (last.fetched = "ok" /\ MsgOf(last).mid = << >>
        /\ PrevNum(last.t, last.num) # last.num) =>
        /\ last.id = FallbackId(last.t, MsgOf(last), last.num)
        /\ last.id # FallbackId(last.t, MsgOf(last), PrevNum(last.t, last.num))
        /\ last.id \notin startLedger =>
              /\ ~last.dup
              /\ (~OffAllowlist(last) /\ HasKeyword(last)) =>
                    last.dispatched /\ sent[last.id] = 1

\* C18 witness: the dispatcher runs for a renumbered message whose earlier
\* identifier is in the ledger and was alerted on before
C18_Witness ==
    /\ last.dispatched /\ MsgOf(last).mid = << >>
    /\ PrevNum(last.t, last.num) # last.num
    /\ LET old == FallbackId(last.t, MsgOf(last), PrevNum(last.t, last.num))
       IN  old \in DOMAIN processed /\ <<last.t, old>> \in dispatchedFor

\* the tenants with a connection that has had no logout yet
OpenConnections == {t \in connected : logouts[t] = 0}

\* C19: a tenant whose connect_imap returned has exactly one logout once its
\* scan is left, whatever way it is left, and none while it is scanned; a
\* tenant without connection has none; a connection is open only while its
\* tenant is scanned, so none is open when the next connect begins and at
\* most one is open at any time
C19_ConnectionsClosedInTurn ==
    /\ \A t \in Tenants :
          logouts[t] = IF t \in connected /\ (pc = "idle" \/ t < ci) THEN 1 ELSE 0
    /\ mail = "open" <=> pc \in {"msg", "send", "mark"}
    /\ pc \in {"msg", "send", "mark"} => OpenConnections = {ci}
    /\ pc \in {"tenant", "idle"} => OpenConnections = {}
    /\ Cardinality(OpenConnections) <= 1

\* C19 witness: after a per-message failure ended the first tenant's scan the
\* first tenant's connection has had its logout and the second connect is next
C19_Witness ==
    /\ pc = "tenant" /\ ci = 2 /\ 1 \in connected /\ logouts[1] = 1
    /\ last.done /\ last.raisedAt # "none"

\* C20 (as claimed): the identifier of a matching message of an allowed
\* sender is in the ledger file only if the dispatcher was called for that
\* message before
C20_PersistedOnlyAfterDispatch ==
    \A t \in Tenants : \A n \in 1..Len(Box(t)) :
        LET rec == [t |-> t, num |-> n]
            id == get_message_id(Box(t)[n], COMPANIES[t].email, n)
        IN  (~OffAllowlist(rec) /\ HasKeyword(rec) /\ decodable(Box(t)[n])
                /\ id \in DOMAIN file) =>
                <<t, id>> \in dispatchedFor

\* C12: whatever happens inside _save_processed_ids, the ledger file is never
\* a text cut short and always reads as the map it held before the save or as
\* the map being saved; the load after a kill returns one of the two, and the
\* map from before when the kill came before the rename
C12_SaveIsAtomic ==
    /\ disk["json"].exists => json_load(disk["json"].text).ok
    /\ read_ledger(disk["json"]) \in {onDisk, saving}
    /\ (spc = "idle" /\ crashedAt # "none") =>
          /\ held \in {onDisk, saving}
          /\ held = read_ledger(disk["json"])
          /\ crashedAt \in {"open", "dump", "replace"} => held = onDisk

\* C12 witness: the process was killed while json.dump was writing, a cut
\* text is left in the temporary file, and the load returned the map from
\* before, which is not empty
C12_Witness ==
    /\ spc = "idle" /\ crashedAt = "dump"
    /\ disk["tmp"].exists /\ ~json_load(disk["tmp"].text).ok
    /\ held = onDisk /\ onDisk # EmptyLedger /\ saving # onDisk

\* C13 (as claimed): whatever is wrong with the ledger file at the start of a
\* cycle (absent, not JSON, JSON but not a map of strings, not readable),
\* load_processed_ids returns the empty ledger and the cycle is not aborted
C13_ReadFailureGivesEmptyLedger ==
    (cycle.ran /\ cycle.kind \in {"missing", "garbled", "not_a_map", "bad_value",
                                   "unreadable"}) =>
        cycle.result = "empty" /\ ~cycle.raised

\* every tenant record has an address, a credential and a chat identifier,
\* there is at least one, and the mail server and the bot token are set
ConfigComplete ==
    LET cs == build_company_configs(env)
    IN  /\ env.IMAP_SERVER # "" /\ env.BOT_TOKEN # ""
        /\ Len(cs) >= 1
        /\ \A i \in 1..Len(cs) :
              cs[i].email # "" /\ cs[i].password # "" /\ Len(cs[i].chat_id) > 0

\* C15: validate_config runs once; afterwards run() is in its loop exactly when
\* the configuration is complete and has returned otherwise, and check_mail
\* is called only in the loop
C15_LoopOnlyWhenConfigured ==
    /\ validations <= 1
    /\ rpc # "start" => validations = 1
    /\ rpc = "loop" => ConfigComplete
    /\ (rpc # "start" /\ ~ConfigComplete) => rpc = "returned" /\ ~called
    /\ called => ConfigComplete /\ rpc = "loop"

\* C15 witness: server and token are set, the second tenant has no password,
\* and run() has returned without a call of check_mail
C15_Witness ==
    /\ rpc = "returned" /\ validations = 1 /\ ~called
    /\ env.IMAP_SERVER # "" /\ env.BOT_TOKEN # ""
    /\ Len(env.EMAILS) = 2 /\ Len(env.PASSWORDS) = 1
    /\ env.TELEGRAM_CHAT_IDS = << <<"-","1">>, <<"-","2",":","5">> >>

\* C16: after a pass whose check_mail returned, the sleep is the interval and
\* the failure count is 0; after the k-th raising pass in a row the sleep is
\* interval * k, or 900 when that is more; it is at most 900, not less than
\* the sleep after the (k-1)-th, and run() is still in its loop
C16_IntervalAndBackoff ==
    cycle.ran =>
        /\ rpc = "loop"
        /\ ~cycle.raised => slept = env.CHECK_INTERVAL /\ consecutive_failures = 0
        /\ cycle.raised =>
              /\ consecutive_failures >= 1
              /\ slept = IF env.CHECK_INTERVAL * consecutive_failures <= 900
                         THEN env.CHECK_INTERVAL * consecutive_failures ELSE 900
              /\ slept <= 900
              /\ cycle.prevRaised => slept >= cycle.prevSlept
              /\ ~cycle.prevRaised => consecutive_failures = 1

\* C16 witness: the fourth raising pass in a row, with the sleep held at the cap
C16_Witness ==
    /\ cycle.ran /\ cycle.raised /\ cycle.prevRaised
    /\ consecutive_failures = 4
    /\ env.CHECK_INTERVAL * consecutive_failures > 900 /\ slept = 900

\* the extracted body text, before the truncation
BodyText == normalize(chunk)

Dots == <<".", ".", ".">>

\* C17 (as claimed): a body text longer than MAX_BODY_CHARS comes back as its
\* first MAX_BODY_CHARS characters followed by the three dots; a shorter one
\* comes back without them
C17_ExactCutPlusMarker ==
    tpc = "out" =>
        IF Len(BodyText) > max_body_chars
        THEN /\ text_out = SubSeq(BodyText, 1, max_body_chars) \o Dots
             /\ Len(text_out) = max_body_chars + 3
        ELSE text_out = IF BodyText = << >> THEN EmptyBody ELSE BodyText

\* C17 (amended): a body text longer than MAX_BODY_CHARS comes back as its
\* first MAX_BODY_CHARS characters without the whitespace at their end,
\* followed by the three dots: at most MAX_BODY_CHARS + 3 characters, and
\* exactly that many when the last character of the cut is not whitespace; a
\* shorter text comes back as it is, the empty one as the placeholder
C17_CutStrippedPlusMarker ==
    tpc = "out" =>
        IF Len(BodyText) > max_body_chars
        THEN LET cut == SubSeq(BodyText, 1, max_body_chars)
                 solid == {i \in 1..max_body_chars : cut[i] \notin {" ", "\n"}}
                 keep == CHOOSE i \in solid : \A j \in solid : i >= j
             IN  /\ text_out = SubSeq(cut, 1, keep) \o Dots
                 /\ Len(text_out) <= max_body_chars + 3
                 /\ cut[max_body_chars] \notin {" ", "\n"} =>
                       text_out = cut \o Dots /\ Len(text_out) = max_body_chars + 3
        ELSE text_out = IF BodyText = << >> THEN EmptyBody ELSE BodyText

\* C17 witness: the cut ends in whitespace and the result is shorter than
\* MAX_BODY_CHARS + 3
C17_Witness ==
    /\ tpc = "out" /\ Len(BodyText) > max_body_chars
    /\ BodyText[max_body_chars] = " "
    /\ Len(text_out) < max_body_chars + 3

=============================================================================
